---------------------------- MODULE Spec2Model ----------------------------
(***************************************************************************)
(* Model of the Datamuse word processor: DatamuseService.fetchWordFrequency *)
(* (the lookup), queryWordsNeedingInfo / updateWordInfo (the store),        *)
(* processWords (one batch), processAllWords (the runner) and main.         *)
(***************************************************************************)
EXTENDS Integers, Sequences, FiniteSets, TLC

(***************************************************************************)
(* Bounds of the model.                                                     *)
(***************************************************************************)
NumWords == 3        \* words 1..NumWords may be rows of the dictionary table
MaxBatchSize == 2    \* batchSize ranges over 0..MaxBatchSize
MaxErrors == 2       \* totalErrors is tracked exactly up to this value
MaxTags == 2         \* longest tags array of a response entry

MaxResults == 1      \* the request's "max: 1": the service returns at most one entry

Words == 1..NumWords

(***************************************************************************)
(* JavaScript values, tagged by type.                                       *)
(***************************************************************************)
JNull == [type |-> "null"]
JUndefined == [type |-> "undefined"]
JStr(s) == [type |-> "string", chars |-> s]
JNum(n) == [type |-> "number", num |-> n]
JArray(items) == [type |-> "array", items |-> items]

\* JavaScript truthiness, as used by `&&`, `||` and `? :`.
Truthy(v) ==
    CASE v.type = "null" -> FALSE
      [] v.type = "undefined" -> FALSE
      [] v.type = "string" -> Len(v.chars) > 0
      [] v.type = "number" -> v.num # 0
      [] OTHER -> TRUE

\* The completions of a block of code: it returns a value or throws.
Return(v) == [completion |-> "return", value |-> v]
Throw(m) == [completion |-> "throw", message |-> m]

\* String.prototype.startsWith
StartsWith(s, prefix) ==
    /\ Len(s) >= Len(prefix)
    /\ SubSeq(s, 1, Len(prefix)) = prefix

\* String.prototype.substring(n): the string without its first n characters.
Substring(s, n) == SubSeq(s, n + 1, Len(s))

FreqPrefix == <<"f", ":">>

\* new Date().toISOString(): the time of the lookup, always a non-empty string.
Now == JStr(<<"2", "0", "2", "5">>)

(***************************************************************************)
(* DatamuseService.fetchWordFrequency                                       *)
(***************************************************************************)
\* tags.find(tag => tag.startsWith('f:')): the first matching tag, undefined
\* when there is none; calling startsWith on a tag that is no string throws.
RECURSIVE FindFrequencyTag(_, _)
FindFrequencyTag(tags, i) ==
    IF i > Len(tags) THEN Return(JUndefined)
    ELSE IF tags[i].type # "string"
        THEN Throw(JStr(<<"tag.startsWith is not a function">>))
    ELSE IF StartsWith(tags[i].chars, FreqPrefix) THEN Return(tags[i])
    ELSE FindFrequencyTag(tags, i + 1)

\* The object returned when the response holds an entry.
FoundInfo(frequency, score) ==
    [frequency |-> IF Truthy(frequency) THEN JStr(Substring(frequency.chars, 2))
                   ELSE JNull,
     score |-> IF Truthy(score) THEN score ELSE JNull,
     fetched_at |-> Now]

\* The object returned when the response holds no entry.
NotFoundInfo ==
    [frequency |-> JNull, score |-> JNull, fetched_at |-> Now,
     error |-> JStr(<<"Word not found in Datamuse database">>)]

\* The object returned by the catch block.
ErrorInfo(message) ==
    [frequency |-> JNull, score |-> JNull, fetched_at |-> Now, error |-> message]

\* The try block of fetchWordFrequency, for one response of the service.
FetchTryBlock(response) ==
    IF response.kind = "rejected" THEN Throw(response.message)
    ELSE LET data == response.data IN
        IF Truthy(data) /\ Len(data.items) > 0
        THEN LET wordData == data.items[1] IN
            IF wordData.type = "null"
            THEN Throw(JStr(<<"Cannot read properties of null (reading 'tags')">>))
            ELSE LET found == IF Truthy(wordData.tags)
                              THEN FindFrequencyTag(wordData.tags.items, 1)
                              ELSE Return(JNull)
                 IN IF found.completion = "throw" THEN found
                    ELSE Return(FoundInfo(found.value, wordData.score))
        ELSE Return(NotFoundInfo)

\* Mutant: the catch block lets the exception go on to the caller.
FetchCatchBlock_Rethrows(thrown) == thrown

\* The catch block turns every exception of the try block into a result.
FetchCatchBlock(thrown) == Return(ErrorInfo(thrown.message))

fetchWordFrequency(response) ==
    LET c == FetchTryBlock(response) IN
    IF c.completion = "throw" THEN FetchCatchBlock(c) ELSE c


(***************************************************************************)
(* The dictionary table.  A row is keyed by <<word, language, source>>; the *)
(* table maps each existing row to its info column.                         *)
(***************************************************************************)
SqlNull == [null |-> TRUE]
SqlJson(text) == [null |-> FALSE, json |-> text]

RowKey(word) == <<word, "english", "wiktionary">>

\* Rows the processor must never select or write: another language, another source.
ForeignRows == {<<1, "french", "wiktionary">>, <<1, "english", "wordnet">>}

\* d.created_at: later words were ingested first, so selection order is not word order.
CreatedAt(key) == NumWords + 1 - key[1]

\* JSON.stringify(info): the members in insertion order, without the undefined ones.
InfoKeys == <<"frequency", "score", "fetched_at", "error">>

RECURSIVE StringifyFrom(_, _)
StringifyFrom(info, i) ==
    IF i > Len(InfoKeys) THEN <<>>
    ELSE IF InfoKeys[i] \in DOMAIN info /\ info[InfoKeys[i]].type # "undefined"
        THEN <<[key |-> InfoKeys[i], value |-> info[InfoKeys[i]]]>>
             \o StringifyFrom(info, i + 1)
    ELSE StringifyFrom(info, i + 1)

Stringify(info) == StringifyFrom(info, 1)

\* Mutant: the selection forgets "info IS NULL".
NeedsInfo_IgnoresInfo(table, key) ==
    /\ key[2] = "english"
    /\ key[3] = "wiktionary"

\* WHERE language = 'english' AND source = 'wiktionary' AND info IS NULL
NeedsInfo(table, key) ==
    /\ key[2] = "english"
    /\ key[3] = "wiktionary"
    /\ table[key].null

\* Mutant: the query has no ORDER BY and the rows come in word order.
RECURSIVE OrderedByCreatedAt_Unordered(_, _)
OrderedByCreatedAt_Unordered(keys, limit) ==
    IF keys = {} \/ limit <= 0 THEN <<>>
    ELSE LET first == CHOOSE k \in keys : \A other \in keys : k[1] <= other[1]
         IN <<first[1]>> \o OrderedByCreatedAt_Unordered(keys \ {first}, limit - 1)

\* ORDER BY created_at ASC LIMIT limit, projected on the word column.
RECURSIVE OrderedByCreatedAt(_, _)
OrderedByCreatedAt(keys, limit) ==
    IF keys = {} \/ limit <= 0 THEN <<>>
    ELSE LET first == CHOOSE k \in keys :
                          \A other \in keys : CreatedAt(k) <= CreatedAt(other)
         IN <<first[1]>> \o OrderedByCreatedAt(keys \ {first}, limit - 1)

\* queryWordsNeedingInfo(limit), when the query succeeds: result.rows.
queryWordsNeedingInfo(table, limit) ==
    OrderedByCreatedAt({k \in DOMAIN table : NeedsInfo(table, k)}, limit)

\* Mutant: the statement forgets the language and source conditions.
UpdateMatches_AnyLanguage(table, word) == {k \in DOMAIN table : k[1] = word}

\* WHERE word = $2 AND language = 'english' AND source = 'wiktionary'
UpdateMatches(table, word) ==
    {k \in DOMAIN table : k[1] = word /\ k[2] = "english" /\ k[3] = "wiktionary"}

\* Mutant: the statement also demands "info IS NULL", like the selection.
updateWordInfo_OnlyPending(table, word, info) ==
    LET matched == {k \in UpdateMatches(table, word) : table[k].null} IN
    [table |-> [k \in DOMAIN table |->
                    IF k \in matched THEN SqlJson(Stringify(info)) ELSE table[k]],
     updated |-> Cardinality(matched) > 0]

\* updateWordInfo(word, info), when the statement succeeds: the table after it
\* and result.rowCount > 0.
updateWordInfo(table, word, info) ==
    LET matched == UpdateMatches(table, word) IN
    [table |-> [k \in DOMAIN table |->
                    IF k \in matched THEN SqlJson(Stringify(info)) ELSE table[k]],
     updated |-> Cardinality(matched) > 0]

(***************************************************************************)
(* The responses of the service.                                            *)
(***************************************************************************)
TagValues ==
    {JStr(<<"f", ":", "1", "2">>), JStr(<<"f", ":">>), JStr(<<"n">>),
     JStr(<<"f">>), JNum(7)}

RECURSIVE SeqsUpTo(_, _)
SeqsUpTo(S, n) ==
    IF n = 0 THEN {<<>>}
    ELSE LET shorter == SeqsUpTo(S, n - 1) IN
         shorter \cup {Append(q, x) : q \in shorter, x \in S}

Entries ==
    {JNull} \cup
    {[type |-> "object", tags |-> t, score |-> s] :
        t \in {JUndefined} \cup {JArray(q) : q \in SeqsUpTo(TagValues, MaxTags)},
        s \in {JUndefined, JNum(0), JNum(100)}}

Rejected(m) == [kind |-> "rejected", message |-> JStr(<<m>>)]
Resolved(data) == [kind |-> "resolved", data |-> data]

Responses ==
    {Rejected("timeout of 10000ms exceeded"), Rejected("Network Error")}
    \cup {Resolved(JNull)}
    \cup {Resolved(JArray(q)) : q \in SeqsUpTo(Entries, MaxResults)}

\* The responses met in a run: a match, no match, a transport failure.
FoundResponse ==
    Resolved(JArray(<<[type |-> "object",
                       tags |-> JArray(<<JStr(<<"f", ":", "1", "2">>)>>),
                       score |-> JNum(100)]>>))
RunResponses ==
    {FoundResponse, Resolved(JArray(<<>>)), Rejected("timeout of 10000ms exceeded")}

(***************************************************************************)
(* State.                                                                   *)
(***************************************************************************)
VARIABLES
    dictionary,      \* the table: existing row key -> info column
    batchSize,       \* processAllWords' batchSize
    pc,              \* where the single thread of control is
    words,           \* processWords: the selected words
    idx,             \* processWords: position of the for-of loop in words
    processedCount,  \* processWords' counters
    successCount,
    errorCount,
    frequencyInfo,   \* processWords: the result of the current word's lookup
    result,          \* processAllWords: what processWords returned
    exc,             \* where the exception being handled was thrown
    totalProcessed,  \* processAllWords' totals
    totalSuccess,
    totalErrors,
    batchNumber,
    poolEnded,       \* pool.end() was called
    exitCode,        \* the process's exit status, -1 while it runs
    startup,         \* history: what was reachable when main tested the connections
    response,        \* the service's response to the current lookup
    pauses,          \* history: perCallDelay pauses taken in the current batch
    raises,          \* history: updates that raised in the current batch
    lookupsDone,     \* history: lookups made in the current batch
    updatesDone,     \* history: updates attempted in the current batch
    batchPauses,     \* history: batchDelayMs pauses since the last selection
    emptySelection,  \* history: a selection returned no row, and totalErrors then
    sums,            \* history: sums of the BatchResults returned so far
    written,         \* history: words whose info this run wrote
    reselected,      \* history: a selection returned a word of `written`
    lookedUpAgain,   \* history: a lookup was made for a word of `written`
    lookupLog,       \* history: the lookups of the current batch, in order
    updateLog,       \* history: the updates issued in the current batch, in order
    lastUpdate       \* history: the latest direct call of updateWordInfo

vars ==
    <<dictionary, batchSize, pc, words, idx, processedCount, successCount,
      errorCount, frequencyInfo, result, exc, totalProcessed, totalSuccess,
      totalErrors, batchNumber, poolEnded, exitCode, response, pauses, raises,
      lookupsDone, updatesDone, batchPauses, emptySelection, sums, written,
      reselected, lookedUpAgain, startup, lookupLog, updateLog, lastUpdate>>

batchVars ==
    <<words, idx, processedCount, successCount, errorCount, frequencyInfo,
      response, pauses, raises, lookupsDone, updatesDone, lookupLog, updateLog>>
totalVars == <<totalProcessed, totalSuccess, totalErrors, batchNumber>>
mainVars == <<poolEnded, exitCode, startup>>
historyVars ==
    <<batchPauses, emptySelection, sums, written, reselected, lookedUpAgain,
      lastUpdate>>

NoResponse == [kind |-> "none"]

\* Info written by an earlier run of the processor.
PreviousInfo == SqlJson(Stringify(fetchWordFrequency(FoundResponse).value))

Tables ==
    {t \in UNION {[S \cup ForeignRows -> {SqlNull, PreviousInfo}] :
                      S \in SUBSET {RowKey(w) : w \in Words}} :
        \A k \in ForeignRows : t[k] = SqlNull}

Init ==
    /\ dictionary \in Tables
    /\ batchSize \in 0..MaxBatchSize
    /\ pc = "main"
    /\ words = <<>>
    /\ idx = 1
    /\ processedCount = 0
    /\ successCount = 0
    /\ errorCount = 0
    /\ frequencyInfo = JUndefined
    /\ result = JUndefined
    /\ exc = "none"
    /\ totalProcessed = 0
    /\ totalSuccess = 0
    /\ totalErrors = 0
    /\ batchNumber = 1
    /\ poolEnded = FALSE
    /\ exitCode = -1
    /\ response = NoResponse
    /\ pauses = 0
    /\ raises = 0
    /\ lookupsDone = 0
    /\ updatesDone = 0
    /\ batchPauses = 0
    /\ emptySelection = [seen |-> FALSE, errors |-> 0]
    /\ sums = [processed |-> 0, success |-> 0, errors |-> 0]
    /\ written = {}
    /\ reselected = FALSE
    /\ lookedUpAgain = FALSE
    /\ startup = [tested |-> FALSE, storage |-> TRUE, service |-> TRUE]
    /\ lookupLog = <<>>
    /\ updateLog = <<>>
    /\ lastUpdate = [called |-> FALSE]

(***************************************************************************)
(* main                                                                     *)
(***************************************************************************)
\* testConnection: SELECT NOW() succeeds (true) or fails (caught, false).
testConnection(storageReachable) == storageReachable

\* DatamuseService.testConnection: logs and returns true; it sends no request,
\* so its answer does not depend on the service.
DatamuseTestConnection(serviceReachable) == TRUE

\* processAllWords' totals are JavaScript numbers; the model follows totalErrors
\* exactly up to MaxErrors and records every larger value as MaxErrors.
CountError(n) == IF n < MaxErrors THEN n + 1 ELSE MaxErrors

\* main tests both connections; a failed test ends the process with
\* process.exit(1), which runs no finally block.
MainTestConnections ==
    /\ pc = "main"
    /\ \E storageReachable \in BOOLEAN, serviceReachable \in BOOLEAN :
        LET dbConnected == testConnection(storageReachable)
            apiConnected == DatamuseTestConnection(serviceReachable)
        IN /\ startup' = [tested |-> TRUE, storage |-> storageReachable,
                          service |-> serviceReachable]
           /\ IF ~dbConnected \/ ~apiConnected
              THEN /\ pc' = "exited"
                   /\ exitCode' = 1
              ELSE /\ pc' = "loop"
                   /\ exitCode' = exitCode
    /\ UNCHANGED <<dictionary, batchSize, batchVars, result, exc, totalVars,
                   poolEnded, historyVars>>

(***************************************************************************)
(* processWords                                                             *)
(***************************************************************************)
BatchResult == [type |-> "object", processedCount |-> processedCount,
                successCount |-> successCount, errorCount |-> errorCount]

\* The for-of loop moves to the next word; after the last one processWords logs
\* the summary and returns its counters.
NextWord(processed, success, errors) ==
    /\ idx' = idx + 1
    /\ IF idx + 1 > Len(words)
       THEN /\ pc' = "returned"
            /\ result' = [type |-> "object", processedCount |-> processed,
                          successCount |-> success, errorCount |-> errors]
            /\ sums' = [processed |-> sums.processed + processed,
                        success |-> sums.success + success,
                        errors |-> sums.errors + errors]
       ELSE /\ pc' = "lookup"
            /\ UNCHANGED <<result, sums>>

\* processAllWords calls processWords, whose selection succeeds: with no row it
\* returns (undefined), otherwise it starts the loop with its counters at 0.
QuerySucceeds ==
    /\ pc = "loop"
    /\ LET rows == queryWordsNeedingInfo(dictionary, batchSize) IN
        /\ words' = rows
        /\ reselected' = (reselected \/ \E i \in DOMAIN rows : rows[i] \in written)
        /\ emptySelection' = IF Len(rows) = 0
                             THEN [seen |-> TRUE, errors |-> totalErrors]
                             ELSE emptySelection
        /\ IF Len(rows) = 0
           THEN /\ pc' = "returned"
                /\ result' = JUndefined
           ELSE /\ pc' = "lookup"
                /\ result' = result
    /\ idx' = 1
    /\ processedCount' = 0
    /\ successCount' = 0
    /\ errorCount' = 0
    /\ pauses' = 0
    /\ raises' = 0
    /\ lookupsDone' = 0
    /\ updatesDone' = 0
    /\ batchPauses' = 0
    /\ exc' = "none"
    /\ UNCHANGED <<dictionary, batchSize, frequencyInfo, response, totalVars,
                   mainVars, sums, written, lookedUpAgain>>
    /\ lookupLog' = <<>>
    /\ updateLog' = <<>>
    /\ UNCHANGED lastUpdate

\* The selection fails: queryWordsNeedingInfo rethrows, processWords' outer
\* catch rethrows, and the exception reaches processAllWords' catch.
QueryFails ==
    /\ pc = "loop"
    /\ pc' = "catch"
    /\ exc' = "select"
    /\ batchPauses' = 0
    /\ UNCHANGED <<dictionary, batchSize, batchVars, result, totalVars, mainVars,
                   emptySelection, sums, written, reselected, lookedUpAgain>>
    /\ UNCHANGED lastUpdate

\* The inner try block starts with the lookup of the current word.
Lookup ==
    /\ pc = "lookup"
    /\ \E r \in RunResponses :
        LET c == fetchWordFrequency(r) IN
        /\ response' = r
        /\ IF c.completion = "return"
           THEN /\ frequencyInfo' = c.value
                /\ pc' = "update"
                /\ UNCHANGED <<idx, errorCount, result, sums>>
           ELSE /\ frequencyInfo' = frequencyInfo
                /\ errorCount' = errorCount + 1
                /\ NextWord(processedCount, successCount, errorCount + 1)
    /\ lookedUpAgain' = (lookedUpAgain \/ words[idx] \in written)
    /\ lookupsDone' = lookupsDone + 1
    /\ UNCHANGED <<dictionary, batchSize, words, processedCount, successCount,
                   exc, totalVars, mainVars, pauses, raises, updatesDone,
                   batchPauses, emptySelection, written, reselected>>
    /\ lookupLog' = Append(lookupLog,
                            [word |-> words[idx], info |-> frequencyInfo'])
    /\ UNCHANGED <<updateLog, lastUpdate>>

\* if (processedCount < words.length): wait delayMs before the next request.
PauseNeeded(processed, selected) == processed < selected

\* Mutant: a word counts as a success only when its lookup found a frequency.
UpdateReturns_CountsLookupErrors ==
    /\ pc = "update"
    /\ LET u == updateWordInfo(dictionary, words[idx], frequencyInfo)
           ok == u.updated /\ "error" \notin DOMAIN frequencyInfo
           success == IF ok THEN successCount + 1 ELSE successCount
           errors == IF ok THEN errorCount ELSE errorCount + 1
       IN /\ dictionary' = u.table
          /\ written' = IF u.updated THEN written \cup {words[idx]} ELSE written
          /\ successCount' = success
          /\ errorCount' = errors
          /\ processedCount' = processedCount + 1
          /\ IF PauseNeeded(processedCount + 1, Len(words))
             THEN /\ pc' = "pause"
                  /\ UNCHANGED <<idx, result, sums>>
             ELSE NextWord(processedCount + 1, success, errors)
    /\ response' = NoResponse
    /\ updatesDone' = updatesDone + 1
    /\ UNCHANGED <<batchSize, words, frequencyInfo, exc, totalVars, mainVars,
                   pauses, raises, lookupsDone, batchPauses, emptySelection,
                   reselected, lookedUpAgain>>
    /\ updateLog' = Append(updateLog, [word |-> words[idx], info |-> frequencyInfo])
    /\ UNCHANGED <<lookupLog, lastUpdate>>

\* The update statement completes: the word counts as a success when a row
\* changed and as an error otherwise, then as processed.
UpdateReturns ==
    /\ pc = "update"
    /\ LET u == updateWordInfo(dictionary, words[idx], frequencyInfo)
           success == IF u.updated THEN successCount + 1 ELSE successCount
           errors == IF u.updated THEN errorCount ELSE errorCount + 1
       IN /\ dictionary' = u.table
          /\ written' = IF u.updated THEN written \cup {words[idx]} ELSE written
          /\ successCount' = success
          /\ errorCount' = errors
          /\ processedCount' = processedCount + 1
          /\ IF PauseNeeded(processedCount + 1, Len(words))
             THEN /\ pc' = "pause"
                  /\ UNCHANGED <<idx, result, sums>>
             ELSE NextWord(processedCount + 1, success, errors)
    /\ response' = NoResponse
    /\ updatesDone' = updatesDone + 1
    /\ UNCHANGED <<batchSize, words, frequencyInfo, exc, totalVars, mainVars,
                   pauses, raises, lookupsDone, batchPauses, emptySelection,
                   reselected, lookedUpAgain>>
    /\ updateLog' = Append(updateLog, [word |-> words[idx], info |-> frequencyInfo])
    /\ UNCHANGED <<lookupLog, lastUpdate>>

\* Mutant: there is no inner catch, a failed update ends the batch.
UpdateRaises_AbortsBatch ==
    /\ pc = "update"
    /\ pc' = "catch"
    /\ exc' = "update"
    /\ raises' = raises + 1
    /\ updatesDone' = updatesDone + 1
    /\ UNCHANGED <<dictionary, batchSize, words, idx, processedCount,
                   successCount, errorCount, frequencyInfo, response, result,
                   totalVars, mainVars, pauses, lookupsDone, historyVars>>
    /\ updateLog' = Append(updateLog, [word |-> words[idx], info |-> frequencyInfo])
    /\ UNCHANGED lookupLog

\* Mutant: the inner catch logs the failure and counts nothing.
UpdateRaises_CountsNothing ==
    /\ pc = "update"
    /\ errorCount' = errorCount
    /\ raises' = raises + 1
    /\ NextWord(processedCount, successCount, errorCount)
    /\ response' = NoResponse
    /\ updatesDone' = updatesDone + 1
    /\ updateLog' = Append(updateLog, [word |-> words[idx], info |-> frequencyInfo])
    /\ UNCHANGED <<dictionary, batchSize, words, processedCount, successCount,
                   frequencyInfo, exc, totalVars, mainVars, pauses, lookupsDone,
                   batchPauses, emptySelection, written, reselected,
                   lookedUpAgain, lookupLog, lastUpdate>>

\* The update statement fails: updateWordInfo rethrows and the inner catch
\* counts an error; the loop goes on with the next word.
UpdateRaises ==
    /\ pc = "update"
    /\ errorCount' = errorCount + 1
    /\ raises' = raises + 1
    /\ NextWord(processedCount, successCount, errorCount + 1)
    /\ response' = NoResponse
    /\ updatesDone' = updatesDone + 1
    /\ UNCHANGED <<dictionary, batchSize, words, processedCount, successCount,
                   frequencyInfo, exc, totalVars, mainVars, pauses, lookupsDone,
                   batchPauses, emptySelection, written, reselected,
                   lookedUpAgain>>
    /\ updateLog' = Append(updateLog, [word |-> words[idx], info |-> frequencyInfo])
    /\ UNCHANGED <<lookupLog, lastUpdate>>

\* await new Promise(resolve => setTimeout(resolve, delayMs))
Pause ==
    /\ pc = "pause"
    /\ pauses' = pauses + 1
    /\ NextWord(processedCount, successCount, errorCount)
    /\ UNCHANGED <<dictionary, batchSize, words, processedCount, successCount,
                   errorCount, frequencyInfo, response, exc, totalVars, mainVars,
                   raises, lookupsDone, updatesDone, batchPauses, emptySelection,
                   written, reselected, lookedUpAgain>>
    /\ UNCHANGED <<lookupLog, updateLog, lastUpdate>>

\* Another process deletes a selected row before its update (rowCount = 0).
ConcurrentDelete ==
    /\ pc \in {"lookup", "update"}
    /\ \E i \in idx..Len(words) :
        /\ RowKey(words[i]) \in DOMAIN dictionary
        /\ dictionary' = [k \in DOMAIN dictionary \ {RowKey(words[i])} |->
                              dictionary[k]]
    /\ UNCHANGED <<batchSize, pc, batchVars, result, exc, totalVars, mainVars,
                   historyVars>>

(***************************************************************************)
(* processAllWords                                                          *)
(***************************************************************************)
\* processWords returned.  Reading result.processedCount of undefined throws a
\* TypeError inside the try block; a count of 0 breaks; otherwise the totals
\* grow and the loop breaks when fewer than batchSize words were processed.
HandleResult ==
    /\ pc = "returned"
    /\ IF result.type = "undefined"
       THEN /\ pc' = "catch"
            /\ exc' = "TypeError"
            /\ UNCHANGED totalVars
       ELSE IF result.processedCount = 0
       THEN /\ pc' = "summary"
            /\ UNCHANGED <<exc, totalVars>>
       ELSE /\ totalProcessed' = totalProcessed + result.processedCount
            /\ totalSuccess' = totalSuccess + result.successCount
            /\ totalErrors' = totalErrors + result.errorCount
            /\ batchNumber' = batchNumber + 1
            /\ pc' = IF result.processedCount < batchSize
                     THEN "summary" ELSE "batch_pause"
            /\ exc' = exc
    /\ UNCHANGED <<dictionary, batchSize, batchVars, result, mainVars, historyVars>>

\* The break between two batches.
BatchPause ==
    /\ pc = "batch_pause"
    /\ pc' = "loop"
    /\ batchPauses' = batchPauses + 1
    /\ UNCHANGED <<dictionary, batchSize, batchVars, result, exc, totalVars,
                   mainVars, emptySelection, sums, written, reselected,
                   lookedUpAgain>>
    /\ UNCHANGED lastUpdate

\* Mutant: the catch block gives up and leaves the loop.
RunnerCatch_Breaks ==
    /\ pc = "catch"
    /\ totalErrors' = CountError(totalErrors)
    /\ pc' = "summary"
    /\ UNCHANGED <<dictionary, batchSize, batchVars, result, exc, totalProcessed,
                   totalSuccess, batchNumber, mainVars, historyVars>>

\* processAllWords' catch block: count an error, then take the break.
RunnerCatch ==
    /\ pc = "catch"
    /\ totalErrors' = CountError(totalErrors)
    /\ pc' = "retry_pause"
    /\ UNCHANGED <<dictionary, batchSize, batchVars, result, exc, totalProcessed,
                   totalSuccess, batchNumber, mainVars, historyVars>>

\* The break of the catch block; the while loop then starts the next batch.
RetryPause ==
    /\ pc = "retry_pause"
    /\ pc' = "loop"
    /\ batchPauses' = batchPauses + 1
    /\ UNCHANGED <<dictionary, batchSize, batchVars, result, exc, totalVars,
                   mainVars, emptySelection, sums, written, reselected,
                   lookedUpAgain>>
    /\ UNCHANGED lastUpdate

\* After the loop: the final summary is logged and processAllWords returns.
Summary ==
    /\ pc = "summary"
    /\ pc' = "finally"
    /\ UNCHANGED <<dictionary, batchSize, batchVars, result, exc, totalVars,
                   mainVars, historyVars>>

\* main's finally block closes the pool; the process then ends normally.
MainFinally ==
    /\ pc = "finally"
    /\ poolEnded' = TRUE
    /\ exitCode' = 0
    /\ pc' = "exited"
    /\ UNCHANGED <<dictionary, batchSize, batchVars, result, exc, totalVars,
                   historyVars>>
    /\ UNCHANGED startup

(***************************************************************************)
(* A caller of DatamuseService.fetchWordFrequency on its own.               *)
(***************************************************************************)
\* One call: the service answers with any response; the caller gets the
\* returned object, or the exception if one leaves fetchWordFrequency.
FetchCall ==
    /\ \E r \in Responses :
        LET c == fetchWordFrequency(r) IN
        /\ response' = r
        /\ frequencyInfo' = IF c.completion = "return" THEN c.value ELSE JUndefined
        /\ exc' = IF c.completion = "return" THEN "none" ELSE "lookup"
    /\ UNCHANGED <<dictionary, batchSize, pc, words, idx, processedCount,
                   successCount, errorCount, result, totalVars, mainVars, pauses,
                   raises, lookupsDone, updatesDone, historyVars>>
    /\ UNCHANGED <<lookupLog, updateLog>>

(***************************************************************************)
(* A caller of updateWordInfo on its own (the function is exported).        *)
(***************************************************************************)
\* The objects a lookup can hand to updateWordInfo.
Infos == {fetchWordFrequency(r).value : r \in RunResponses}

\* One call updateWordInfo(word, info) whose statement succeeds.  The history
\* keeps the call, what it returned and whether it repeats the call before it.
UpdateCall ==
    /\ \E word \in Words, info \in Infos :
        LET u == updateWordInfo(dictionary, word, info) IN
        /\ dictionary' = u.table
        /\ lastUpdate' = [called |-> TRUE, word |-> word, info |-> info,
                          updated |-> u.updated,
                          repeated |-> /\ lastUpdate.called
                                       /\ lastUpdate.word = word
                                       /\ lastUpdate.info = info]
    /\ UNCHANGED <<batchSize, pc, batchVars, result, exc, totalVars, mainVars,
                   batchPauses, emptySelection, sums, written, reselected,
                   lookedUpAgain>>

(***************************************************************************)
(* Specifications.                                                          *)
(***************************************************************************)
\* The steps of the processor itself.
Step ==
    \/ MainTestConnections
    \/ QuerySucceeds
    \/ QueryFails
    \/ Lookup
    \/ UpdateReturns
    \/ UpdateRaises
    \/ Pause
    \/ HandleResult
    \/ BatchPause
    \/ RunnerCatch
    \/ RetryPause
    \/ Summary
    \/ MainFinally

Next == Step \/ ConcurrentDelete

Spec == Init /\ [][Next]_vars

\* The processor with a storage whose select and update never fail.  Node's
\* event loop runs every pending continuation and timer, so a step that is
\* possible is eventually taken.
StepNoFailure ==
    \/ MainTestConnections
    \/ QuerySucceeds
    \/ Lookup
    \/ UpdateReturns
    \/ Pause
    \/ HandleResult
    \/ BatchPause
    \/ RunnerCatch
    \/ RetryPause
    \/ Summary
    \/ MainFinally

NextNoFailure == StepNoFailure \/ ConcurrentDelete

FairSpec == Init /\ [][NextNoFailure]_vars /\ WF_vars(StepNoFailure)

\* fetchWordFrequency called on its own, with every response of the service.
LookupInit == Init /\ batchSize = 0 /\ DOMAIN dictionary = ForeignRows

LookupSpec == LookupInit /\ [][FetchCall]_vars

\* updateWordInfo called on its own, any number of times, on every table.
UpdateInit == Init /\ batchSize = 0

UpdateSpec == UpdateInit /\ [][UpdateCall]_vars

(***************************************************************************)
(* Claims.                                                                  *)
(***************************************************************************)
Done == pc \in {"summary", "finally", "exited"}

\* C1: with batchSize >= 1 and a storage whose select and update never fail,
\* a run of processAllWords that has started eventually leaves its loop
\* (reaches Done), whatever the lookups answer.
C1_RunnerTerminates == (pc = "loop" /\ batchSize >= 1) ~> (pc = "summary")

ZeroResult == [type |-> "object", processedCount |-> 0, successCount |-> 0,
               errorCount |-> 0]

\* C2: once a selection has returned no row, processWords has returned the
\* zero-count BatchResult and the runner is Done on that result: no pause, no
\* further selection, nothing added to the error total.
C2_EmptySelectionEndsRun ==
    emptySelection.seen =>
        /\ result = ZeroResult
        /\ pc \in {"returned", "summary", "finally", "exited"}
        /\ batchPauses = 0
        /\ totalErrors = emptySelection.errors

\* C3: the BatchResult of a batch of n selected words has processed = n and
\* processed = success + error, also when updates raised.
C3_ProcessedCountsEveryWord ==
    (pc = "returned" /\ result.type = "object") =>
        /\ result.processedCount = Len(words)
        /\ result.processedCount = result.successCount + result.errorCount

\* C4: an update that raises does not end the batch: no exception of a word
\* reaches the runner (only a failed selection escapes processWords), the
\* later words are all looked up and updated, and a BatchResult is returned.
C4_UpdateFailureDoesNotAbortBatch ==
    /\ exc \in {"none", "select", "TypeError"}
    /\ (raises > 0 => pc \in {"lookup", "update", "pause", "returned",
                              "summary", "finally", "exited"})
    /\ (pc = "returned" /\ Len(words) > 0) =>
        /\ result.type = "object"
        /\ lookupsDone = Len(words)
        /\ updatesDone = Len(words)

\* C4 witness: the first word's update raised and the batch returned after
\* the second word was looked up and updated successfully.
C4_Witness ==
    /\ pc = "returned"
    /\ Len(words) = 2
    /\ raises = 1
    /\ result.type = "object"
    /\ result.successCount = 1
    /\ result.processedCount = 1
    /\ pauses = 1

\* C5: when the runner is Done, the selection of the batch it just ran
\* returned fewer than batchSize rows.
C5_DoneMeansLastPage == pc = "summary" => Len(words) < batchSize

\* C6: fetchWordFrequency returns an object for every response (no exception
\* reaches the caller); on no match, a transport failure or a null entry the
\* object has frequency = null, score = null and a non-empty error.
NoMatchOrFailure(r) ==
    \/ r.kind = "rejected"
    \/ /\ r.kind = "resolved"
       /\ \/ r.data.type = "null"
          \/ Len(r.data.items) = 0
          \/ r.data.items[1].type = "null"

C6_LookupNeverRaises ==
    response.kind # "none" =>
        /\ exc = "none"
        /\ {"frequency", "score", "fetched_at"} \subseteq DOMAIN frequencyInfo
        /\ NoMatchOrFailure(response) =>
            /\ frequencyInfo.frequency = JNull
            /\ frequencyInfo.score = JNull
            /\ "error" \in DOMAIN frequencyInfo
            /\ frequencyInfo.error.type = "string"
            /\ Len(frequencyInfo.error.chars) > 0

\* C6 witness: a tag that is no string made the try block throw, and the
\* caller still got an error record.
C6_Witness ==
    /\ response.kind = "resolved"
    /\ response.data.type = "array"
    /\ Len(response.data.items) = 1
    /\ response.data.items[1].type = "object"
    /\ response.data.items[1].tags.type = "array"
    /\ Len(response.data.items[1].tags.items) > 0
    /\ response.data.items[1].tags.items[1].type = "number"
    /\ exc = "none"
    /\ frequencyInfo = ErrorInfo(JStr(<<"tag.startsWith is not a function">>))

\* C7: a batch of N > 1 selected words takes at least N - 1 pauses of
\* perCallDelay, whatever the outcomes of its lookups and updates.
C7_AtLeastNMinusOnePauses ==
    (pc = "returned" /\ result.type = "object" /\ Len(words) > 1) =>
        pauses >= Len(words) - 1

\* C8: a word whose info the run has written has a non-null info (while its
\* row exists), is returned by no later selection and is not looked up again.
C8_InfoIsTheCheckpoint ==
    /\ ~reselected
    /\ ~lookedUpAgain
    /\ \A w \in written :
        RowKey(w) \in DOMAIN dictionary => ~dictionary[RowKey(w)].null

\* C8 witness: after a write and a failed selection, a later selection
\* returned rows and the first of them is about to be looked up.
C8_Witness ==
    /\ pc = "lookup"
    /\ idx = 1
    /\ written # {}
    /\ totalErrors > 0
    /\ \E w \in written : RowKey(w) \in DOMAIN dictionary

\* C9: when the runner is Done, its totals are the sums of the counts of the
\* BatchResults returned by processWords (totalErrors below the model's cap).
C9_TotalsAreSumsOfBatchResults ==
    (pc = "summary" /\ totalErrors < MaxErrors) =>
        /\ totalProcessed = sums.processed
        /\ totalSuccess = sums.success
        /\ totalErrors = sums.errors

\* C10: after a failed selection the runner stays in its loop (it is never
\* Done because of the failure), takes exactly one batchDelayMs pause before
\* the next selection, and the next selection can always be attempted,
\* whatever the number of earlier failures; a batch started after failures
\* starts like any other: at its first word with all its counters at 0.
C10_SelectionFailureIsRetried ==
    /\ exc = "select" => pc \in {"catch", "retry_pause", "loop"}
    /\ (exc = "select" /\ pc \in {"catch", "retry_pause"}) => batchPauses = 0
    /\ (exc = "select" /\ pc = "loop") => batchPauses = 1
    /\ (exc = "select" /\ pc = "catch") => ENABLED RunnerCatch
    /\ (exc = "select" /\ pc = "retry_pause") => ENABLED RetryPause
    /\ (exc = "select" /\ pc = "loop") => ENABLED QuerySucceeds /\ ENABLED QueryFails
    /\ (pc = "lookup" /\ lookupsDone = 0) =>
        /\ exc = "none"
        /\ idx = 1
        /\ Len(words) \in 1..batchSize
        /\ processedCount = 0 /\ successCount = 0 /\ errorCount = 0
        /\ pauses = 0 /\ batchPauses = 0

\* C10 witness: the selection failed more often than the model counts
\* errors, the next one succeeded and its first word is being looked up.
C10_Witness ==
    /\ pc = "lookup"
    /\ idx = 1
    /\ exc = "none"
    /\ totalErrors = MaxErrors
    /\ sums.errors = 0
    /\ totalProcessed = 0
    /\ batchPauses = 0

\* C11: a word is counted as a success exactly when its update returned true
\* (a row changed), whatever lookup result was written; an update that
\* returned false counts the word as an error, raises nothing and leaves the
\* table as it was; an update that raised is no success.
UpdateStep == updatesDone' = updatesDone + 1

C11_SuccessIffUpdateReturnedTrue ==
    [][UpdateStep =>
        IF raises' # raises
        THEN successCount' = successCount
        ELSE IF RowKey(words[idx]) \in DOMAIN dictionary
        THEN /\ successCount' = successCount + 1
             /\ errorCount' = errorCount
             /\ dictionary'[RowKey(words[idx])] = SqlJson(Stringify(frequencyInfo))
        ELSE /\ successCount' = successCount
             /\ errorCount' = errorCount + 1
             /\ dictionary' = dictionary
             /\ exc' = "none"
             /\ pc' # "catch"]_vars

\* C11 witness: a batch of two words returned; the first word's not-found
\* record was written and counted as a success, the second word's row was
\* gone, its update returned false and it was counted as an error.
C11_Witness ==
    /\ pc = "returned"
    /\ Len(words) = 2
    /\ raises = 0
    /\ result.type = "object"
    /\ result.successCount = 1
    /\ result.errorCount = 1
    /\ RowKey(words[1]) \in DOMAIN dictionary
    /\ dictionary[RowKey(words[1])] = SqlJson(Stringify(NotFoundInfo))
    /\ RowKey(words[2]) \notin DOMAIN dictionary

\* C12: for every batch size B >= 0, processWords returns a BatchResult whose
\* processed count is at most B.
C12_ProcessedAtMostBatchSize ==
    pc = "returned" =>
        /\ result.type = "object"
        /\ result.processedCount <= batchSize

\* C13: every execution of main that ends the process has closed the pool.
C13_PoolEndedOnEveryExit == pc = "exited" => poolEnded

\* C14: if the storage or the lexical service was unreachable when main
\* tested the connections, the process has exited with failure status and
\* has made no selection, lookup or update.
C14_StartupFailureIsFatal ==
    (startup.tested /\ (~startup.storage \/ ~startup.service)) =>
        /\ pc = "exited"
        /\ exitCode = 1
        /\ words = <<>>
        /\ lookupLog = <<>>
        /\ updateLog = <<>>

\* C15: every object returned by fetchWordFrequency has fetched_at set and
\* is either a payload (frequency or score non-null) without an error, or an
\* error with frequency = score = null; never an object with none of them.
HasPayload(info) == info.frequency # JNull \/ info.score # JNull
HasError(info) == "error" \in DOMAIN info /\ Truthy(info.error)

C15_PayloadOrError ==
    response.kind # "none" =>
        /\ "fetched_at" \in DOMAIN frequencyInfo
        /\ Truthy(frequencyInfo.fetched_at)
        /\ \/ HasPayload(frequencyInfo) /\ ~HasError(frequencyInfo)
           \/ HasError(frequencyInfo) /\ ~HasPayload(frequencyInfo)

\* C16: a call of updateWordInfo that repeats the call before it (same word,
\* same info) leaves the table as it was and returns the same boolean.
C16_UpdateIsIdempotent ==
    [][(lastUpdate.called /\ lastUpdate'.called
            /\ lastUpdate'.word = lastUpdate.word
            /\ lastUpdate'.info = lastUpdate.info) =>
        /\ dictionary' = dictionary
        /\ lastUpdate'.updated = lastUpdate.updated]_vars

\* C16 witness: a call repeated the call before it on a row that exists and
\* whose info differs from the info the table started with.
C16_Witness ==
    /\ lastUpdate.called
    /\ lastUpdate.repeated
    /\ lastUpdate.updated
    /\ lastUpdate.info = NotFoundInfo
    /\ dictionary[RowKey(lastUpdate.word)] = SqlJson(Stringify(NotFoundInfo))

\* C17: no step of the processor adds or removes a row, and the only info a
\* step of it changes is that of the english/wiktionary row of the selected
\* word being updated; every other row keeps its info.
ProcessorMoves ==
    <<batchSize, pc, batchVars, result, exc, totalVars, mainVars, historyVars>>'
        # <<batchSize, pc, batchVars, result, exc, totalVars, mainVars, historyVars>>

C17_OnlySelectedInfoIsWritten ==
    [][ProcessorMoves =>
        /\ DOMAIN dictionary' = DOMAIN dictionary
        /\ \A k \in DOMAIN dictionary :
            dictionary'[k] # dictionary[k] =>
                /\ pc = "update"
                /\ k[1] = words[idx]
                /\ k[2] = "english"
                /\ k[3] = "wiktionary"]_vars

\* C17 witness: after a batch that wrote word 1, the rows of word 1 in another
\* language and from another source still have a null info, and an
\* english/wiktionary row that was not selected keeps its earlier info.
C17_Witness ==
    /\ pc = "returned"
    /\ 1 \in written
    /\ \A k \in ForeignRows : k \in DOMAIN dictionary /\ dictionary[k] = SqlNull
    /\ \E w \in Words \ written :
        /\ RowKey(w) \in DOMAIN dictionary
        /\ dictionary[RowKey(w)] = PreviousInfo
        /\ \A i \in DOMAIN words : words[i] # w

\* C18: within a batch a pause follows a word exactly when it is not the
\* last word of the selection: no pause after the last word, and every
\* earlier word is followed by one before the next lookup.
C18_PauseExactlyBetweenWords ==
    /\ pc = "pause" => idx < Len(words)
    /\ (pc = "lookup" /\ Len(words) > 0) => pauses = idx - 1

\* C19: within a batch the words are looked up in the order of the selection,
\* which is by creation time ascending; at most one lookup or update is in
\* flight; and each word's update is issued after its own lookup, before the
\* next word's lookup, with the result of its own lookup.
InSelectionOrder(log) ==
    /\ Len(log) <= Len(words)
    /\ \A i \in DOMAIN log : log[i].word = words[i]

C19_SequentialInSelectionOrder ==
    /\ \A i, j \in DOMAIN words :
        i < j => CreatedAt(RowKey(words[i])) < CreatedAt(RowKey(words[j]))
    /\ InSelectionOrder(lookupLog)
    /\ InSelectionOrder(updateLog)
    /\ Len(lookupLog) = lookupsDone
    /\ Len(updateLog) = updatesDone
    /\ lookupsDone - updatesDone = (IF pc = "update" THEN 1 ELSE 0)
    /\ \A i \in DOMAIN updateLog : updateLog[i] = lookupLog[i]
    /\ pc = "lookup" => idx = lookupsDone + 1
    /\ pc = "update" =>
        /\ idx = lookupsDone
        /\ frequencyInfo = lookupLog[idx].info
        /\ frequencyInfo = fetchWordFrequency(response).value

\* C19 witness: in a batch of two words the second word's lookup answered
\* otherwise than the first's, and its update is about to be issued.
C19_Witness ==
    /\ pc = "update"
    /\ Len(words) = 2
    /\ idx = 2
    /\ Len(updateLog) = 1
    /\ updateLog[1].word = words[1]
    /\ lookupLog[1].info = NotFoundInfo
    /\ lookupLog[2].info # NotFoundInfo
    /\ words[1] > words[2]

\* C20: the BatchResult of a non-empty batch has success + error = number of
\* words selected and processed <= success + error, whatever the outcome of
\* each update.
C20_EveryWordClassifiedOnce ==
    (pc = "returned" /\ result.type = "object") =>
        /\ result.successCount + result.errorCount = Len(words)
        /\ result.processedCount <= result.successCount + result.errorCount

\* C20 witness: a batch of two words returned after one update raised and the
\* other found its row gone: no success, two errors, one word processed.
C20_Witness ==
    /\ pc = "returned"
    /\ Len(words) = 2
    /\ raises = 1
    /\ result.type = "object"
    /\ result.successCount = 0
    /\ result.errorCount = 2
    /\ result.processedCount = 1

=============================================================================
